---- MODULE Spec2Model ----
(***************************************************************************)
(* The sync engine of routes/index.js: POST /api/sync (one transaction per *)
(* invocation: read watermark, fetch customers and receipts, upsert,       *)
(* insert, index, append watermark, commit or roll back) and               *)
(* GET /api/sync-status.                                                   *)
(*                                                                         *)
(* Every `await` of the handler is one step of the invocation, so that     *)
(* concurrently triggered requests interleave exactly where the event loop *)
(* lets them.  The MySQL store is modelled as committed tables plus, per   *)
(* open transaction, the rows it has written and not yet committed (which  *)
(* it alone sees, and which lock their keys against the other              *)
(* transactions until it ends).                                            *)
(***************************************************************************)
EXTENDS Integers, Sequences, FiniteSets, TLC

\* ------------------------------------------------------------------ bounds
NumProcs == 2        \* request handlers that may run concurrently
MaxSyncs == 2        \* POST /api/sync invocations in one behaviour
MaxCustomers == 2    \* customer records the POS API delivers in one behaviour
MaxReceipts == 2     \* receipt records the POS API delivers in one behaviour

Procs == 1..NumProcs

\* ------------------------------------------------------------ input data
NULL == "NULL"

\* Column default of the numeric customers columns the placeholder insert omits.
DefaultNum == 0

\* Customer records the POS API may return: two versions of customer c1 that
\* differ in every attribute.
CustomerPool ==
  { [id |-> "c1", name |-> "Ann", email |-> "ann@x", phone_number |-> "111",
     total_visits |-> 1, total_spent |-> 10, updated_at |-> 1],
    [id |-> "c1", name |-> "Anna", email |-> "anna@y", phone_number |-> "222",
     total_visits |-> 2, total_spent |-> 20, updated_at |-> 2] }

ItemA == [item_name |-> "latte", quantity |-> 2, price |-> 3]
ItemB == [item_name |-> "bagel", quantity |-> 1, price |-> 4]

\* Receipt records the POS API may return.  Two of them carry the same
\* receipt_number with different contents; one has no customer.
ReceiptPool ==
  { [receipt_number |-> "r1", created_at |-> 1, total_money |-> 10, total_tax |-> 1,
     source |-> "pos", customer_id |-> "c1", line_items |-> <<ItemA, ItemB>>],
    [receipt_number |-> "r2", created_at |-> 2, total_money |-> 6, total_tax |-> 0,
     source |-> "pos", customer_id |-> "c2", line_items |-> <<ItemA>>],
    [receipt_number |-> "r1", created_at |-> 3, total_money |-> 7, total_tax |-> 2,
     source |-> "web", customer_id |-> NULL, line_items |-> <<>>] }

SeqsUpTo(S, n) == UNION { [1..k -> S] : k \in 0..n }

\* The responses the POS API may give while n more records are within the bound.
CustomerLists(n) == SeqsUpTo(CustomerPool, n)
ReceiptLists(n) == SeqsUpTo(ReceiptPool, n)

\* ------------------------------------------------------------------ state
VARIABLES
  customers,    \* committed customers table: id -> row
  receipts,     \* committed receipts table: receipt_number -> row
  line_items,   \* committed line_items table: rows in insertion order
  sync_log,     \* committed sync_log table: set of [id, last_sync_timestamp]
  logNextId,    \* AUTO_INCREMENT counter of sync_log.id
  clock,        \* the wall clock, as of the last new Date()
  started,      \* POST /api/sync invocations started so far
  custLeft,     \* customer records the POS API may still deliver
  rcptLeft,     \* receipt records the POS API may still deliver
  pc,           \* per handler: the await it is suspended at
  hasConn,      \* per handler: `connection` is defined
  wCust,        \* per transaction: uncommitted customers rows
  wRcpt,        \* per transaction: uncommitted receipts rows
  wItems,       \* per transaction: uncommitted line_items rows
  wLog,         \* per transaction: uncommitted sync_log rows
  lastSync,     \* per handler: const lastSync
  now,          \* per handler: const now
  custQ,        \* per handler: customers still to upsert
  nCust,        \* per handler: customers.length
  rcptQ,        \* per handler: receipts still to process (head = current)
  nRcpt,        \* per handler: receipts.length
  itemQ,        \* per handler: line items of the current receipt still to insert
  itemSummaries,\* per handler: itemSummaries of the current receipt
  docs,         \* per handler: documentsForVectorization
  indexCalls,   \* per handler: calls made to /embed-and-store by this invocation
  indexOk,      \* per handler: the /embed-and-store call returned successfully
  err,          \* per handler: the error caught by the last invocation
  resp,         \* per handler: the response sent by the last invocation
  statusResp,   \* the response of the last GET /api/sync-status
  requests,     \* per handler: the GET requests sent to the POS API so far
  indexed,      \* the documents the indexing service has accepted, in order
  lastEnd       \* the `now` of the last invocation whose data commit succeeded

dbVars == <<customers, receipts, line_items, sync_log>>
txVars == <<wCust, wRcpt, wItems, wLog>>
winVars == <<lastSync, now, requests>>
loopVars == <<custQ, nCust, rcptQ, nRcpt, itemQ, itemSummaries, docs>>
idxVars == <<indexCalls, indexOk>>
vars == <<customers, receipts, line_items, sync_log, logNextId, clock, started, pc,
          hasConn, wCust, wRcpt, wItems, wLog, lastSync, now, custQ, nCust, rcptQ,
          nRcpt, itemQ, itemSummaries, docs, indexCalls, indexOk, err, resp,
          statusResp, custLeft, rcptLeft, requests, indexed, lastEnd>>

EmptyFn == <<>>
NoResponse == [code |-> 0, body |-> <<>>]

\* A sync_log row: the column keeps the instant it is given.
SyncLogRow(id, t) == [id |-> id, last_sync_timestamp |-> t]

\* The seeded watermark row the provisioning may have inserted.
SeedRow == SyncLogRow(1, 0)

Init ==
  /\ customers = EmptyFn
  /\ receipts = EmptyFn
  /\ line_items = <<>>
  /\ \E seeded \in BOOLEAN :
       /\ sync_log = IF seeded THEN {SeedRow} ELSE {}
       /\ logNextId = IF seeded THEN 2 ELSE 1
       /\ lastEnd = IF seeded THEN <<SeedRow.last_sync_timestamp>> ELSE <<>>
  /\ clock = 0
  /\ started = 0
  /\ pc = [p \in Procs |-> "idle"]
  /\ hasConn = [p \in Procs |-> FALSE]
  /\ wCust = [p \in Procs |-> EmptyFn]
  /\ wRcpt = [p \in Procs |-> EmptyFn]
  /\ wItems = [p \in Procs |-> <<>>]
  /\ wLog = [p \in Procs |-> {}]
  /\ lastSync = [p \in Procs |-> 0]
  /\ now = [p \in Procs |-> 0]
  /\ custQ = [p \in Procs |-> <<>>]
  /\ nCust = [p \in Procs |-> 0]
  /\ rcptQ = [p \in Procs |-> <<>>]
  /\ nRcpt = [p \in Procs |-> 0]
  /\ itemQ = [p \in Procs |-> <<>>]
  /\ itemSummaries = [p \in Procs |-> <<>>]
  /\ docs = [p \in Procs |-> <<>>]
  /\ indexCalls = [p \in Procs |-> 0]
  /\ indexOk = [p \in Procs |-> FALSE]
  /\ err = [p \in Procs |-> "none"]
  /\ resp = [p \in Procs |-> NoResponse]
  /\ statusResp = NoResponse
  /\ requests = [p \in Procs |-> <<>>]
  /\ indexed = <<>>
  /\ custLeft = MaxCustomers
  /\ rcptLeft = MaxReceipts

\* ------------------------------------------------------- store operations
Has(f, k) == k \in DOMAIN f

Put(f, k, v) == [x \in DOMAIN f \cup {k} |-> IF x = k THEN v ELSE f[x]]

\* A table as a transaction sees it: the committed rows overlaid with its own.
Overlay(f, w) == [x \in DOMAIN f \cup DOMAIN w |-> IF x \in DOMAIN w THEN w[x] ELSE f[x]]

\* Another open transaction has written (and so locked) key k.
LockedByOther(w, p, k) == \E q \in Procs \ {p} : k \in DOMAIN w[q]

\* The watermark read in ascending id order: the oldest row.
SelectOldestSync(log) ==
  IF log = {} THEN <<>>
  ELSE <<CHOOSE r \in log : \A o \in log : r.id <= o.id>>

\* SELECT last_sync_timestamp FROM sync_log ORDER BY id DESC LIMIT 1
SelectLastSync(log) ==
  IF log = {} THEN <<>>
  ELSE <<CHOOSE r \in log : \A o \in log : o.id <= r.id>>

\* The row INSERT INTO customers (id, name, email, ...) VALUES (...) creates.
UpsertRow(c) ==
  [name |-> c.name, email |-> c.email, phone_number |-> c.phone_number,
   total_visits |-> c.total_visits, total_spent |-> c.total_spent,
   updated_at |-> c.updated_at]

\* A merge that keeps the stored row when it is not older than the record.
UpsertIfNewer(view, c) ==
  IF Has(view, c.id) /\ view[c.id].updated_at >= c.updated_at
  THEN view[c.id]
  ELSE UpsertRow(c)

\* INSERT ... ON DUPLICATE KEY UPDATE name = VALUES(name), ...: the row of
\* c.id after the statement, given the table as the transaction sees it.
Upsert(view, c) ==
  IF Has(view, c.id)
  THEN [view[c.id] EXCEPT !.name = c.name, !.email = c.email,
                          !.phone_number = c.phone_number,
                          !.total_visits = c.total_visits,
                          !.total_spent = c.total_spent,
                          !.updated_at = c.updated_at]
  ELSE UpsertRow(c)

\* The row INSERT IGNORE INTO customers (id, name, updated_at) creates.
StubRow(receipt) ==
  [name |-> "Unknown Customer", email |-> NULL, phone_number |-> NULL,
   total_visits |-> DefaultNum, total_spent |-> DefaultNum,
   updated_at |-> receipt.created_at]

\* The row INSERT INTO receipts (...) creates.
ReceiptRow(receipt) ==
  [created_at |-> receipt.created_at, total_money |-> receipt.total_money,
   total_tax |-> receipt.total_tax, source |-> receipt.source,
   customer_id |-> receipt.customer_id]

\* The row INSERT INTO line_items (...) creates.
LineItemRow(receipt, item) ==
  [receipt_number |-> receipt.receipt_number, item_name |-> item.item_name,
   quantity |-> item.quantity, price |-> item.price]

\* UNIQUE(receipt_number): the key is taken, in the committed table or by this
\* transaction's own earlier insert.
ReceiptKeyExists(p, num) == Has(receipts, num) \/ Has(wRcpt[p], num)

\* `${item.quantity} of ${item.item_name}`
ItemSummary(item) == <<item.quantity, "of", item.item_name>>

\* `On ${...toLocaleString()}, receipt ${n} was created totaling ${t}. Items sold: ...`
BuildSummary(receipt, summaries) ==
  <<"On", <<"toLocaleString", receipt.created_at>>, "receipt", receipt.receipt_number,
    "was created totaling", receipt.total_money, "Items sold:", summaries>>

\* Date.prototype.toISOString(): the instant, to the millisecond, as text.
ToISOString(t) == <<"ISO", t>>

\* const syncParams = { created_at_min, created_at_max, limit: 250 }
SyncParams(ls, n) ==
  [created_at_min |-> ToISOString(ls), created_at_max |-> ToISOString(n), limit |-> 250]

\* axios.get(url, { headers: apiHeaders, params: syncParams })
GetRequest(url, params) == [url |-> url, params |-> params]

\* ------------------------------------------------------------- responses
SyncedResponse(nr, nc) ==
  [code |-> 200, body |-> <<"Successfully synced", nr, "receipts and", nc, "customers.">>]
NoNewDataResponse == [code |-> 200, body |-> <<"No new data to sync.">>]
SyncErrorResponse == [code |-> 500, body |-> <<"An error occurred during synchronization.">>]

\* ------------------------------------------------------------ control flow
\* Where the receipt loop goes next, given the receipts still to process.
ReceiptPc(rest) ==
  IF rest = <<>> THEN "afterLoop"
  ELSE IF Head(rest).customer_id # NULL THEN "insertStub" ELSE "insertReceipt"

\* The POST to /embed-and-store made whether or not there is a document.
AfterLoopPcAlways(d) == "embed"

\* if (documentsForVectorization.length > 0) axios.post(...) ; then the log insert
AfterLoopPc(d) == IF Len(d) > 0 THEN "embed" ELSE "insertLog"

LoopPc(rest, d) == IF rest = <<>> THEN AfterLoopPc(d) ELSE ReceiptPc(rest)

\* The locals of the try block of handler p back to their initial values (they
\* go out of scope when the block is left, normally or by an exception).
ResetTry(p) ==
  /\ lastSync' = [lastSync EXCEPT ![p] = 0]
  /\ now' = [now EXCEPT ![p] = 0]
  /\ requests' = [requests EXCEPT ![p] = <<>>]
  /\ custQ' = [custQ EXCEPT ![p] = <<>>]
  /\ nCust' = [nCust EXCEPT ![p] = 0]
  /\ rcptQ' = [rcptQ EXCEPT ![p] = <<>>]
  /\ nRcpt' = [nRcpt EXCEPT ![p] = 0]
  /\ itemQ' = [itemQ EXCEPT ![p] = <<>>]
  /\ itemSummaries' = [itemSummaries EXCEPT ![p] = <<>>]
  /\ docs' = [docs EXCEPT ![p] = <<>>]
  /\ indexCalls' = [indexCalls EXCEPT ![p] = 0]
  /\ indexOk' = [indexOk EXCEPT ![p] = FALSE]

\* The invocation of handler p ends: the connection is released (its
\* transaction has ended) and the locals are gone.
ResetLocals(p) ==
  /\ hasConn' = [hasConn EXCEPT ![p] = FALSE]
  /\ wCust' = [wCust EXCEPT ![p] = EmptyFn]
  /\ wRcpt' = [wRcpt EXCEPT ![p] = EmptyFn]
  /\ wItems' = [wItems EXCEPT ![p] = <<>>]
  /\ wLog' = [wLog EXCEPT ![p] = {}]
  /\ ResetTry(p)

\* An error thrown inside the try block: the catch block runs, and awaits the
\* rollback when `connection` is defined.
Throw(p, e) ==
  /\ err' = [err EXCEPT ![p] = e]
  /\ pc' = [pc EXCEPT ![p] = "rollback"]
  /\ ResetTry(p)

\* ------------------------------------------------------- POST /api/sync
\* A request arrives: dbPool.getConnection() is awaited.
Start(p) ==
  /\ pc[p] = "idle"
  /\ started < MaxSyncs
  /\ started' = started + 1
  /\ pc' = [pc EXCEPT ![p] = "getConnection"]
  /\ err' = [err EXCEPT ![p] = "none"]
  /\ resp' = [resp EXCEPT ![p] = NoResponse]
  /\ UNCHANGED <<dbVars, logNextId, clock, hasConn, txVars, winVars, loopVars,
                 idxVars, statusResp, indexed, lastEnd, custLeft, rcptLeft>>

\* connection = await dbPool.getConnection(); beginTransaction() is awaited.
GetConnection(p) ==
  /\ pc[p] = "getConnection"
  /\ hasConn' = [hasConn EXCEPT ![p] = TRUE]
  /\ pc' = [pc EXCEPT ![p] = "beginTransaction"]
  /\ UNCHANGED <<dbVars, logNextId, clock, started, txVars, winVars, loopVars,
                 idxVars, err, resp, statusResp, indexed, lastEnd, custLeft, rcptLeft>>

\* getConnection() rejects: catch with `connection` undefined (no rollback, no
\* release), the 500 response is sent.
GetConnectionFails(p) ==
  /\ pc[p] = "getConnection"
  /\ err' = [err EXCEPT ![p] = "none"]
  /\ resp' = [resp EXCEPT ![p] = SyncErrorResponse]
  /\ pc' = [pc EXCEPT ![p] = "idle"]
  /\ UNCHANGED <<dbVars, logNextId, clock, started, hasConn, txVars, winVars,
                 loopVars, idxVars, statusResp, indexed, lastEnd, custLeft, rcptLeft>>

\* await connection.beginTransaction(); the watermark query is awaited.
BeginTransaction(p) ==
  /\ pc[p] = "beginTransaction"
  /\ pc' = [pc EXCEPT ![p] = "readWatermark"]
  /\ UNCHANGED <<dbVars, logNextId, clock, started, hasConn, txVars, winVars,
                 loopVars, idxVars, err, resp, statusResp, indexed, lastEnd, custLeft,
                 rcptLeft>>

\* The watermark query returns; lastSync and now are fixed; the customers fetch
\* is issued.  With no row, rows[0].last_sync_timestamp throws a TypeError.
ReadWatermark(p) ==
  /\ pc[p] = "readWatermark"
  /\ LET rows == SelectLastSync(sync_log) IN
       IF rows = <<>>
       THEN /\ Throw(p, "TypeError")
            /\ UNCHANGED clock
       ELSE /\ \E t \in {clock, clock + 1} :
                 /\ clock' = t
                 /\ now' = [now EXCEPT ![p] = t]
                 /\ requests' = [requests EXCEPT ![p] = Append(@,
                      GetRequest("customers", SyncParams(rows[1].last_sync_timestamp, t)))]
            /\ lastSync' = [lastSync EXCEPT ![p] = rows[1].last_sync_timestamp]
            /\ pc' = [pc EXCEPT ![p] = "fetchCustomers"]
            /\ UNCHANGED <<err, loopVars, idxVars>>
  /\ UNCHANGED <<dbVars, logNextId, started, hasConn, txVars, resp, statusResp,
                 indexed, lastEnd, custLeft, rcptLeft>>

\* The request of the receipts fetch: the same syncParams object.
ReceiptsRequest(p) == GetRequest("receipts", SyncParams(lastSync[p], now[p]))

\* The customers response arrives: customers = data.customers || [].  With
\* no customer the receipts fetch is issued at once.
FetchCustomers(p) ==
  /\ pc[p] = "fetchCustomers"
  /\ \E cs \in CustomerLists(custLeft) :
       /\ custLeft' = custLeft - Len(cs)
       /\ custQ' = [custQ EXCEPT ![p] = cs]
       /\ nCust' = [nCust EXCEPT ![p] = Len(cs)]
       /\ pc' = [pc EXCEPT ![p] = IF cs = <<>> THEN "fetchReceipts" ELSE "upsertCustomer"]
       /\ requests' = [requests EXCEPT ![p] =
                         IF cs = <<>> THEN Append(@, ReceiptsRequest(p)) ELSE @]
  /\ UNCHANGED <<dbVars, logNextId, clock, started, hasConn, txVars, lastSync, now,
                 rcptQ, nRcpt, itemQ, itemSummaries, docs, idxVars, err, resp,
                 statusResp, indexed, lastEnd, rcptLeft>>

\* The upsert issued on the pool instead of the transaction's connection: it
\* autocommits.
UpsertCustomerOnPool(p) ==
  /\ pc[p] = "upsertCustomer"
  /\ LET c == Head(custQ[p]) IN
       /\ ~LockedByOther(wCust, p, c.id)
       /\ customers' = Put(customers, c.id, Upsert(Overlay(customers, wCust[p]), c))
       /\ custQ' = [custQ EXCEPT ![p] = Tail(@)]
       /\ pc' = [pc EXCEPT ![p] =
                   IF Tail(custQ[p]) = <<>> THEN "fetchReceipts" ELSE "upsertCustomer"]
       /\ requests' = [requests EXCEPT ![p] =
                         IF Tail(custQ[p]) = <<>> THEN Append(@, ReceiptsRequest(p)) ELSE @]
  /\ UNCHANGED <<receipts, line_items, sync_log, logNextId, clock, started, hasConn,
                 txVars, lastSync, now, nCust, rcptQ, nRcpt, itemQ, itemSummaries, docs,
                 idxVars, err, resp, statusResp, indexed, lastEnd, custLeft, rcptLeft>>

\* One INSERT ... ON DUPLICATE KEY UPDATE of the customers loop completes;
\* after the last one the receipts fetch is issued.
UpsertCustomer(p) ==
  /\ pc[p] = "upsertCustomer"
  /\ LET c == Head(custQ[p]) IN
       /\ ~LockedByOther(wCust, p, c.id)
       /\ wCust' = [wCust EXCEPT ![p] =
                      Put(@, c.id, Upsert(Overlay(customers, wCust[p]), c))]
       /\ custQ' = [custQ EXCEPT ![p] = Tail(@)]
       /\ pc' = [pc EXCEPT ![p] =
                   IF Tail(custQ[p]) = <<>> THEN "fetchReceipts" ELSE "upsertCustomer"]
       /\ requests' = [requests EXCEPT ![p] =
                         IF Tail(custQ[p]) = <<>> THEN Append(@, ReceiptsRequest(p)) ELSE @]
  /\ UNCHANGED <<dbVars, logNextId, clock, started, hasConn, wRcpt, wItems, wLog,
                 lastSync, now, nCust, rcptQ, nRcpt, itemQ, itemSummaries, docs,
                 idxVars, err, resp, statusResp, indexed, lastEnd, custLeft,
                 rcptLeft>>

\* The current receipt is done: its description is pushed, the loop moves on,
\* and after the last receipt the documents are posted to /embed-and-store.
FinishReceipt(p, summaries) ==
  LET r == Head(rcptQ[p])
      rest == Tail(rcptQ[p])
      d == Append(docs[p], BuildSummary(r, summaries))
  IN /\ docs' = [docs EXCEPT ![p] = d]
     /\ rcptQ' = [rcptQ EXCEPT ![p] = rest]
     /\ itemSummaries' = [itemSummaries EXCEPT ![p] = <<>>]
     /\ pc' = [pc EXCEPT ![p] = LoopPc(rest, d)]
     /\ indexCalls' = [indexCalls EXCEPT ![p] =
                         IF LoopPc(rest, d) = "embed" THEN @ + 1 ELSE @]

\* An early return as soon as either list is empty.
NoNewDataEither(rs, nc) == Len(rs) = 0 \/ nc = 0

\* if (receipts.length === 0 && customers.length === 0)
NoNewData(rs, nc) == Len(rs) = 0 /\ nc = 0

\* The receipts response arrives: receipts = data.receipts.  Both lists empty:
\* the no-op commit is awaited.  Otherwise the receipt loop starts.
FetchReceipts(p) ==
  /\ pc[p] = "fetchReceipts"
  /\ \E rs \in ReceiptLists(rcptLeft) :
       IF NoNewData(rs, nCust[p])
       THEN /\ pc' = [pc EXCEPT ![p] = "commitNoop"]
            /\ UNCHANGED <<rcptQ, nRcpt, indexCalls, rcptLeft>>
       ELSE /\ rcptLeft' = rcptLeft - Len(rs)
            /\ rcptQ' = [rcptQ EXCEPT ![p] = rs]
            /\ nRcpt' = [nRcpt EXCEPT ![p] = Len(rs)]
            /\ pc' = [pc EXCEPT ![p] = LoopPc(rs, <<>>)]
            /\ indexCalls' = [indexCalls EXCEPT ![p] =
                                IF LoopPc(rs, <<>>) = "embed" THEN @ + 1 ELSE @]
  /\ UNCHANGED <<dbVars, logNextId, clock, started, hasConn, txVars, winVars, custQ,
                 nCust, itemQ, itemSummaries, docs, indexOk, err, resp, statusResp,
                 indexed, lastEnd, custLeft>>

\* The receipts response carries no `receipts` array: receipts.length throws.
FetchReceiptsMalformed(p) ==
  /\ pc[p] = "fetchReceipts"
  /\ Throw(p, "TypeError")
  /\ UNCHANGED <<dbVars, logNextId, clock, started, hasConn, txVars, resp,
                 statusResp, indexed, lastEnd, custLeft, rcptLeft>>

\* The placeholder insert left out.
InsertStubSkipped(p) ==
  /\ pc[p] = "insertStub"
  /\ pc' = [pc EXCEPT ![p] = "insertReceipt"]
  /\ UNCHANGED <<dbVars, logNextId, clock, started, hasConn, txVars, winVars,
                 loopVars, idxVars, err, resp, statusResp, indexed, lastEnd, custLeft,
                 rcptLeft>>

\* The placeholder written with REPLACE INTO: it takes the place of any row.
InsertStubReplace(p) ==
  /\ pc[p] = "insertStub"
  /\ LET r == Head(rcptQ[p]) IN
       /\ ~LockedByOther(wCust, p, r.customer_id)
       /\ wCust' = [wCust EXCEPT ![p] = Put(@, r.customer_id, StubRow(r))]
  /\ pc' = [pc EXCEPT ![p] = "insertReceipt"]
  /\ UNCHANGED <<dbVars, logNextId, clock, started, hasConn, wRcpt, wItems, wLog,
                 winVars, loopVars, idxVars, err, resp, statusResp, indexed, lastEnd,
                 custLeft, rcptLeft>>

\* INSERT IGNORE INTO customers (id, name, updated_at): a row is created only
\* when the transaction sees none with that id.
InsertStub(p) ==
  /\ pc[p] = "insertStub"
  /\ LET r == Head(rcptQ[p]) IN
       /\ ~LockedByOther(wCust, p, r.customer_id)
       /\ wCust' = [wCust EXCEPT ![p] =
                      IF Has(Overlay(customers, wCust[p]), r.customer_id)
                      THEN @
                      ELSE Put(@, r.customer_id, StubRow(r))]
  /\ pc' = [pc EXCEPT ![p] = "insertReceipt"]
  /\ UNCHANGED <<dbVars, logNextId, clock, started, hasConn, wRcpt, wItems, wLog,
                 winVars, loopVars, idxVars, err, resp, statusResp, indexed, lastEnd,
                 custLeft, rcptLeft>>

\* The receipt written with INSERT IGNORE: a taken receipt_number is skipped
\* silently and the sync goes on.
InsertReceiptIgnore(p) ==
  /\ pc[p] = "insertReceipt"
  /\ LET r == Head(rcptQ[p]) IN
       /\ ~LockedByOther(wRcpt, p, r.receipt_number)
       /\ wRcpt' = [wRcpt EXCEPT ![p] =
                      IF ReceiptKeyExists(p, r.receipt_number)
                      THEN @
                      ELSE Put(@, r.receipt_number, ReceiptRow(r))]
       /\ UNCHANGED <<err, winVars>>
       /\ IF r.line_items = <<>>
          THEN /\ FinishReceipt(p, <<>>)
               /\ UNCHANGED <<custQ, nCust, nRcpt, itemQ, indexOk>>
          ELSE /\ itemQ' = [itemQ EXCEPT ![p] = r.line_items]
               /\ pc' = [pc EXCEPT ![p] = "insertLineItem"]
               /\ UNCHANGED <<custQ, nCust, rcptQ, nRcpt, itemSummaries, docs,
                              idxVars>>
  /\ UNCHANGED <<dbVars, logNextId, clock, started, hasConn, wCust, wItems, wLog,
                 resp, statusResp, indexed, lastEnd, custLeft, rcptLeft>>

\* The receipt written with ON DUPLICATE KEY UPDATE: a taken receipt_number
\* has its row overwritten and the sync goes on.
InsertReceiptUpsert(p) ==
  /\ pc[p] = "insertReceipt"
  /\ LET r == Head(rcptQ[p]) IN
       /\ ~LockedByOther(wRcpt, p, r.receipt_number)
       /\ wRcpt' = [wRcpt EXCEPT ![p] = Put(@, r.receipt_number, ReceiptRow(r))]
       /\ UNCHANGED <<err, winVars>>
       /\ IF r.line_items = <<>>
          THEN /\ FinishReceipt(p, <<>>)
               /\ UNCHANGED <<custQ, nCust, nRcpt, itemQ, indexOk>>
          ELSE /\ itemQ' = [itemQ EXCEPT ![p] = r.line_items]
               /\ pc' = [pc EXCEPT ![p] = "insertLineItem"]
               /\ UNCHANGED <<custQ, nCust, rcptQ, nRcpt, itemSummaries, docs,
                              idxVars>>
  /\ UNCHANGED <<dbVars, logNextId, clock, started, hasConn, wCust, wItems, wLog,
                 resp, statusResp, indexed, lastEnd, custLeft, rcptLeft>>

\* INSERT INTO receipts: a taken receipt_number is a duplicate-key error.
InsertReceipt(p) ==
  /\ pc[p] = "insertReceipt"
  /\ LET r == Head(rcptQ[p]) IN
       /\ ~LockedByOther(wRcpt, p, r.receipt_number)
       /\ IF ReceiptKeyExists(p, r.receipt_number)
          THEN /\ Throw(p, "ER_DUP_ENTRY")
               /\ UNCHANGED wRcpt
          ELSE /\ wRcpt' = [wRcpt EXCEPT ![p] = Put(@, r.receipt_number, ReceiptRow(r))]
               /\ UNCHANGED <<err, winVars>>
               /\ IF r.line_items = <<>>
                  THEN /\ FinishReceipt(p, <<>>)
                       /\ UNCHANGED <<custQ, nCust, nRcpt, itemQ, indexOk>>
                  ELSE /\ itemQ' = [itemQ EXCEPT ![p] = r.line_items]
                       /\ pc' = [pc EXCEPT ![p] = "insertLineItem"]
                       /\ UNCHANGED <<custQ, nCust, rcptQ, nRcpt, itemSummaries, docs,
                                      idxVars>>
  /\ UNCHANGED <<dbVars, logNextId, clock, started, hasConn, wCust, wItems, wLog,
                 resp, statusResp, indexed, lastEnd, custLeft, rcptLeft>>

\* One INSERT INTO line_items of the current receipt completes.
InsertLineItem(p) ==
  /\ pc[p] = "insertLineItem"
  /\ LET r == Head(rcptQ[p])
         item == Head(itemQ[p])
         summaries == Append(itemSummaries[p], ItemSummary(item))
     IN /\ wItems' = [wItems EXCEPT ![p] = Append(@, LineItemRow(r, item))]
        /\ itemQ' = [itemQ EXCEPT ![p] = Tail(@)]
        /\ IF Tail(itemQ[p]) = <<>>
           THEN FinishReceipt(p, summaries)
           ELSE /\ itemSummaries' = [itemSummaries EXCEPT ![p] = summaries]
                /\ UNCHANGED <<pc, rcptQ, docs, indexCalls>>
  /\ UNCHANGED <<dbVars, logNextId, clock, started, hasConn, wCust, wRcpt, wLog,
                 winVars, custQ, nCust, nRcpt, indexOk, err, resp, statusResp,
                 indexed, lastEnd, custLeft, rcptLeft>>

\* The POST to /embed-and-store returns 2xx (the service has stored the
\* documents); the sync_log insert is awaited.
EmbedAndStore(p) ==
  /\ pc[p] = "embed"
  /\ indexOk' = [indexOk EXCEPT ![p] = TRUE]
  /\ indexed' = indexed \o docs[p]
  /\ pc' = [pc EXCEPT ![p] = "insertLog"]
  /\ UNCHANGED <<dbVars, logNextId, clock, started, hasConn, txVars, winVars,
                 loopVars, indexCalls, err, resp, statusResp, lastEnd, custLeft,
                 rcptLeft>>

\* The watermark row written with a new Date() taken at the insert.
InsertLogFreshDate(p) ==
  /\ pc[p] = "insertLog"
  /\ wLog' = [wLog EXCEPT ![p] = @ \cup {SyncLogRow(logNextId, clock)}]
  /\ logNextId' = logNextId + 1
  /\ pc' = [pc EXCEPT ![p] = "commit"]
  /\ UNCHANGED <<dbVars, clock, started, hasConn, wCust, wRcpt, wItems, winVars,
                 loopVars, idxVars, err, resp, statusResp, indexed, lastEnd, custLeft,
                 rcptLeft>>

\* INSERT INTO sync_log (last_sync_timestamp) VALUES (now); commit is awaited.
InsertLog(p) ==
  /\ pc[p] = "insertLog"
  /\ wLog' = [wLog EXCEPT ![p] = @ \cup {SyncLogRow(logNextId, now[p])}]
  /\ logNextId' = logNextId + 1
  /\ pc' = [pc EXCEPT ![p] = "commit"]
  /\ UNCHANGED <<dbVars, clock, started, hasConn, wCust, wRcpt, wItems, winVars,
                 loopVars, idxVars, err, resp, statusResp, indexed, lastEnd, custLeft,
                 rcptLeft>>

\* COMMIT with the watermark kept as a single row that is overwritten.
ApplyWritesOverwriteLog(p) ==
  /\ customers' = Overlay(customers, wCust[p])
  /\ receipts' = Overlay(receipts, wRcpt[p])
  /\ line_items' = line_items \o wItems[p]
  /\ sync_log' = IF wLog[p] = {} THEN sync_log ELSE wLog[p]

\* COMMIT: the transaction's rows become the committed ones.
ApplyWrites(p) ==
  /\ customers' = Overlay(customers, wCust[p])
  /\ receipts' = Overlay(receipts, wRcpt[p])
  /\ line_items' = line_items \o wItems[p]
  /\ sync_log' = sync_log \cup wLog[p]

\* ROLLBACK: the transaction's rows are dropped.
DiscardWrites(p) == UNCHANGED dbVars

\* await connection.commit() of the data-bearing path returns: the success
\* response is sent and the connection released.
Commit(p) ==
  /\ pc[p] = "commit"
  /\ ApplyWrites(p)
  /\ resp' = [resp EXCEPT ![p] = SyncedResponse(nRcpt[p], nCust[p])]
  /\ lastEnd' = <<now[p]>>
  /\ pc' = [pc EXCEPT ![p] = "idle"]
  /\ ResetLocals(p)
  /\ UNCHANGED <<logNextId, clock, started, err, statusResp, indexed, custLeft,
                 rcptLeft>>

\* await connection.commit() of the no-op path returns.
CommitNoop(p) ==
  /\ pc[p] = "commitNoop"
  /\ ApplyWrites(p)
  /\ resp' = [resp EXCEPT ![p] = NoNewDataResponse]
  /\ pc' = [pc EXCEPT ![p] = "idle"]
  /\ ResetLocals(p)
  /\ UNCHANGED <<logNextId, clock, started, err, statusResp, indexed, lastEnd,
                 custLeft, rcptLeft>>

\* The awaits inside the try block that can reject, and the error each raises.
FailPoints ==
  {"beginTransaction", "readWatermark", "fetchCustomers", "upsertCustomer",
   "fetchReceipts", "insertStub", "insertReceipt", "insertLineItem", "embed",
   "insertLog", "commit", "commitNoop"}

ErrorAt(at) ==
  CASE at \in {"fetchCustomers", "fetchReceipts"} -> "RemoteFetchError"
    [] at = "embed" -> "IndexingUnavailableError"
    [] OTHER -> "PersistenceError"

\* A failure of the indexing call caught and logged on the spot, the sync going on.
FailSwallowIndexing(p) ==
  /\ pc[p] \in FailPoints
  /\ IF pc[p] = "embed"
     THEN /\ pc' = [pc EXCEPT ![p] = "insertLog"]
          /\ UNCHANGED <<err, winVars, loopVars, idxVars>>
     ELSE Throw(p, ErrorAt(pc[p]))
  /\ UNCHANGED <<dbVars, logNextId, clock, started, hasConn, txVars, resp,
                 statusResp, indexed, lastEnd, custLeft, rcptLeft>>

\* The awaited call rejects (network, lock wait timeout, deadlock, ...): nothing
\* of it takes effect and the catch block runs.
Fail(p) ==
  /\ pc[p] \in FailPoints
  /\ Throw(p, ErrorAt(pc[p]))
  /\ UNCHANGED <<dbVars, logNextId, clock, started, hasConn, txVars, resp,
                 statusResp, indexed, lastEnd, custLeft, rcptLeft>>

\* await connection.rollback() returns: the 500 response is sent and the
\* connection released.
Rollback(p) ==
  /\ pc[p] = "rollback"
  /\ DiscardWrites(p)
  /\ resp' = [resp EXCEPT ![p] = SyncErrorResponse]
  /\ err' = [err EXCEPT ![p] = "none"]
  /\ pc' = [pc EXCEPT ![p] = "idle"]
  /\ ResetLocals(p)
  /\ UNCHANGED <<logNextId, clock, started, statusResp, indexed, lastEnd, custLeft,
                 rcptLeft>>

\* The release done in the catch block after the rollback instead of in a
\* finally block: a rejected rollback skips it.
RollbackFailsNoRelease(p) ==
  /\ pc[p] = "rollback"
  /\ DiscardWrites(p)
  /\ err' = [err EXCEPT ![p] = "none"]
  /\ pc' = [pc EXCEPT ![p] = "idle"]
  /\ wCust' = [wCust EXCEPT ![p] = EmptyFn]
  /\ wRcpt' = [wRcpt EXCEPT ![p] = EmptyFn]
  /\ wItems' = [wItems EXCEPT ![p] = <<>>]
  /\ wLog' = [wLog EXCEPT ![p] = {}]
  /\ ResetTry(p)
  /\ UNCHANGED <<logNextId, clock, started, hasConn, resp, statusResp, indexed,
                 lastEnd, custLeft, rcptLeft>>

\* connection.rollback() itself rejects (the connection is lost, and the server
\* aborts its transaction): the catch block is left by the exception, no
\* response is sent; finally releases the connection.
RollbackFails(p) ==
  /\ pc[p] = "rollback"
  /\ DiscardWrites(p)
  /\ err' = [err EXCEPT ![p] = "none"]
  /\ pc' = [pc EXCEPT ![p] = "idle"]
  /\ ResetLocals(p)
  /\ UNCHANGED <<logNextId, clock, started, resp, statusResp, indexed, lastEnd,
                 custLeft, rcptLeft>>

\* --------------------------------------------------- GET /api/sync-status
\* toLocaleDateString('en-US', {weekday, day, month, year}): the calendar day.
TicksPerDay == 2

FormatDate(ts) == <<"day", ts \div TicksPerDay>>

NoSyncResponse == [code |-> 404, body |-> <<"No sync has been performed yet.">>]
StatusErrorResponse == [code |-> 500, body |-> <<"Failed to retrieve sync status.">>]

StatusResponse(log) ==
  LET rows == SelectLastSync(log) IN
    IF Len(rows) = 0 THEN NoSyncResponse
    ELSE [code |-> 200, body |-> <<"lastSync", FormatDate(rows[1].last_sync_timestamp)>>]

\* The request's query on the pool (autocommit) returns and the response is sent.
SyncStatus ==
  /\ statusResp' = StatusResponse(sync_log)
  /\ UNCHANGED <<dbVars, logNextId, clock, started, pc, hasConn, txVars, winVars,
                 loopVars, idxVars, err, resp, custLeft, rcptLeft, indexed, lastEnd>>

\* The query rejects.
SyncStatusFails ==
  /\ statusResp' = StatusErrorResponse
  /\ UNCHANGED <<dbVars, logNextId, clock, started, pc, hasConn, txVars, winVars,
                 loopVars, idxVars, err, resp, custLeft, rcptLeft, indexed, lastEnd>>

\* -------------------------------------------------------- specification
Sync(p) ==
  \/ Start(p) \/ GetConnection(p) \/ GetConnectionFails(p) \/ BeginTransaction(p)
  \/ ReadWatermark(p) \/ FetchCustomers(p) \/ UpsertCustomer(p) \/ FetchReceipts(p)
  \/ FetchReceiptsMalformed(p) \/ InsertStub(p) \/ InsertReceipt(p)
  \/ InsertLineItem(p) \/ EmbedAndStore(p) \/ InsertLog(p) \/ Commit(p)
  \/ CommitNoop(p) \/ Fail(p) \/ Rollback(p) \/ RollbackFails(p)

Next == \E p \in Procs : Sync(p)

Spec == Init /\ [][Next]_vars

\* The sync engine with its invocations run one after another: a handler
\* steps only while every other handler is idle.
NextSerial == \E p \in Procs : (\A q \in Procs \ {p} : pc[q] = "idle") /\ Sync(p)

SpecSerial == Init /\ [][NextSerial]_vars

\* The sync engine together with the status endpoint.
NextStatus == (\E p \in Procs : Sync(p)) \/ SyncStatus \/ SyncStatusFails

SpecStatus == Init /\ [][NextStatus]_vars

\* ------------------------------------------------------------- the claims
\* The pcs between beginTransaction and the end of the transaction.
InTransaction == (FailPoints \ {"beginTransaction"}) \cup {"rollback"}

\* What C1 asks of a single step.
C1_Step ==
  /\ dbVars' # dbVars =>
       \E p \in Procs :
         /\ pc[p] = "commit" /\ pc'[p] = "idle" /\ resp'[p].code = 200
         /\ customers' = Overlay(customers, wCust[p])
         /\ receipts' = Overlay(receipts, wRcpt[p])
         /\ line_items' = line_items \o wItems[p]
         /\ sync_log' = sync_log \cup wLog[p]
  /\ \A p \in Procs :
       /\ (pc[p] = "rollback" /\ pc'[p] = "idle") => dbVars' = dbVars
       /\ pc'[p] = "idle" => (wCust'[p] = EmptyFn /\ wRcpt'[p] = EmptyFn
                              /\ wItems'[p] = <<>> /\ wLog'[p] = {})

\* C1: atomicity of POST /api/sync.  The committed tables change only in the
\* step in which an invocation's commit on the data-bearing path succeeds, and
\* then by all of that invocation's writes at once; whatever an invocation
\* wrote before a failure is gone when it ends (an idle handler holds no
\* uncommitted row), so a failed invocation leaves customers, receipts,
\* line_items and sync_log as they were.
C1_Atomicity == [][C1_Step]_vars

\* An invocation that upserted customers and fetched receipts has failed and
\* ended, and the tables are as they were before it.
C1_Witness ==
  /\ started = 1 /\ pc[1] = "idle" /\ resp[1] = SyncErrorResponse
  /\ custLeft < MaxCustomers /\ rcptLeft < MaxReceipts
  /\ customers = EmptyFn /\ receipts = EmptyFn /\ line_items = <<>>
  /\ sync_log = {SeedRow}

\* What C2 asks of a single step.
C2_Step ==
  /\ \A row \in sync_log' \ sync_log :
       \E p \in Procs :
         /\ pc[p] = "commit" /\ row \in wLog[p]
         /\ Len(docs[p]) > 0 => (indexOk[p] /\ indexCalls[p] = 1)
  /\ \A p \in Procs :
       /\ wLog'[p] # {} => (Len(docs'[p]) > 0 => indexOk'[p])
       /\ (pc[p] = "embed" /\ pc'[p] # "embed" /\ ~indexOk'[p]) =>
            (pc'[p] = "rollback" /\ wLog'[p] = {})
       /\ (pc[p] = "rollback" /\ pc'[p] # "rollback") =>
            (pc'[p] = "idle" /\ dbVars' = dbVars)

\* C2: the watermark never outruns indexing.  Every row that becomes committed
\* in sync_log was inserted by the committing invocation after its call to
\* /embed-and-store returned successfully (when it built a document); an
\* invocation whose indexing call fails goes to the rollback with no watermark
\* row, and rolls back.
C2_WatermarkAfterIndexing == [][C2_Step]_vars

\* A sync that built a document has committed its watermark row.
C2_Witness ==
  /\ Cardinality(sync_log) = 2
  /\ receipts # EmptyFn
  /\ \E p \in Procs : pc[p] = "idle" /\ resp[p].code = 200

\* Handler p took a step.
Stepped(p) ==
  pc'[p] # pc[p] \/ custQ'[p] # custQ[p] \/ rcptQ'[p] # rcptQ[p] \/ itemQ'[p] # itemQ[p]

\* What C3 asks of a single step.
C3_Step ==
  /\ \A a, b \in sync_log' :
       a.id < b.id => a.last_sync_timestamp <= b.last_sync_timestamp
  /\ \A row \in sync_log' \ sync_log :
       \E p \in Procs :
         pc[p] = "commit" /\ row \in wLog[p] /\ row.last_sync_timestamp = now[p]

\* C3: watermark monotonicity.  The timestamps of sync_log read in id order
\* are non-decreasing, and every row that becomes committed carries the `now`
\* its invocation captured after reading the watermark.
C3_WatermarkMonotonic == [][C3_Step]_vars

\* What C4 asks of a single step.
C4_Step ==
  /\ \A p \in Procs :
       /\ ( /\ pc[p] = "insertReceipt"
            /\ Stepped(p)
            /\ ReceiptKeyExists(p, Head(rcptQ[p]).receipt_number) ) =>
            (pc'[p] = "rollback" /\ wRcpt'[p] = wRcpt[p] /\ dbVars' = dbVars)
       /\ (pc[p] = "rollback" /\ pc'[p] # "rollback") =>
            /\ pc'[p] = "idle"
            /\ resp'[p].code # 200
            /\ dbVars' = dbVars
            /\ SelectLastSync(sync_log') = SelectLastSync(sync_log)
  /\ \A n \in DOMAIN receipts : Has(receipts', n) /\ receipts'[n] = receipts[n]

\* C4: a duplicate receipt is a hard failure.  When the receipts insert meets a
\* receipt_number that is already taken (in the committed table, or by an
\* earlier receipt of the same batch), the invocation goes to its rollback
\* without writing the receipt; an invocation in its rollback ends without a
\* success response and without changing any table, so the stored receipt row
\* and the most recent watermark stay as they are; no step replaces a
\* committed receipt row.
C4_DuplicateReceiptFails == [][C4_Step]_vars

\* An invocation has met a receipt_number that an earlier sync committed.
C4_Witness ==
  \E p \in Procs :
    pc[p] = "rollback" /\ err[p] = "ER_DUP_ENTRY" /\ Has(receipts, "r1")

\* What C5 asks of a single step.
C5_Step ==
  \A p \in Procs :
    /\ (pc[p] = "fetchReceipts" /\ pc'[p] \notin {"fetchReceipts", "rollback"}) =>
         ((nCust[p] = 0 /\ rcptLeft' = rcptLeft) <=> pc'[p] = "commitNoop")
    /\ pc'[p] = "commitNoop" =>
         /\ wCust'[p] = EmptyFn /\ wRcpt'[p] = EmptyFn
         /\ wItems'[p] = <<>> /\ wLog'[p] = {}
         /\ indexCalls'[p] = 0
    /\ (pc[p] = "commitNoop" /\ pc'[p] = "idle") =>
         (resp'[p] = NoNewDataResponse /\ dbVars' = dbVars)
    /\ resp'[p] = NoNewDataResponse /\ resp[p] # NoNewDataResponse =>
         pc[p] = "commitNoop"

\* C5: the no-op sync.  The receipts response leads to the no-op commit exactly
\* when no customer and no receipt was fetched; an invocation at the no-op
\* commit has written nothing and has not called the indexing service; when
\* that commit returns, the response is 'No new data to sync.' and no table
\* (sync_log included) has changed.
C5_NoOpSync == [][C5_Step]_vars

\* A no-op sync has completed.
C5_Witness ==
  \E p \in Procs : pc[p] = "idle" /\ resp[p] = NoNewDataResponse

\* C6: referential integrity of the committed tables.  Every receipt with a
\* customer_id has a customers row with that id, and every line_items row
\* names a receipt_number that is in receipts.
C6_ReferentialIntegrity ==
  /\ \A n \in DOMAIN receipts :
       receipts[n].customer_id # NULL => Has(customers, receipts[n].customer_id)
  /\ \A i \in 1..Len(line_items) : Has(receipts, line_items[i].receipt_number)

\* A receipt of a customer the POS API never delivered is committed with its
\* line item, the customer being a placeholder.
C6_Witness ==
  /\ Has(receipts, "r2") /\ receipts["r2"].customer_id = "c2"
  /\ Has(customers, "c2") /\ customers["c2"].name = "Unknown Customer"
  /\ Len(line_items) > 0

\* What C7 asks of a single step.
C7_Step ==
  \A p \in Procs :
    (pc[p] = "insertStub" /\ pc'[p] = "insertReceipt") =>
      LET r == Head(rcptQ[p])
          before == Overlay(customers, wCust[p])
          after == Overlay(customers', wCust'[p])
      IN /\ Has(after, r.customer_id)
         /\ Has(before, r.customer_id) => after = before
         /\ ~Has(before, r.customer_id) =>
              /\ after[r.customer_id].name = "Unknown Customer"
              /\ after[r.customer_id].updated_at = r.created_at
              /\ \A id \in DOMAIN before : after[id] = before[id]

\* C7: the placeholder insert never clobbers.  When it runs for an id the
\* transaction sees a row of (committed earlier, or upserted earlier in the
\* same invocation), that row is unchanged in every field; only when there is
\* no such row does it create one, named 'Unknown Customer'; no other
\* customers row changes.
C7_StubNonClobbering == [][C7_Step]_vars

\* The placeholder insert has run for c1 while the transaction saw the
\* authoritative row of c1 that an earlier sync committed.
C7_Witness ==
  \E p \in Procs :
    /\ pc[p] = "insertReceipt" /\ Head(rcptQ[p]).customer_id = "c1"
    /\ Has(customers, "c1") /\ customers["c1"].name = "Anna"
    /\ ~Has(wCust[p], "c1")

\* What C8 asks of a single step.
C8_Step ==
  \A p \in Procs :
    /\ ( /\ pc[p] = "upsertCustomer"
         /\ pc'[p] # "rollback"
         /\ custQ'[p] = Tail(custQ[p]) ) =>
         LET c == Head(custQ[p])
             before == Overlay(customers, wCust[p])
             after == Overlay(customers', wCust'[p])
         IN /\ Has(after, c.id)
            /\ after[c.id] = UpsertRow(c)
            /\ \A id \in DOMAIN before \ {c.id} : after[id] = before[id]
    /\ (pc[p] = "commit" /\ pc'[p] = "idle") =>
         \A id \in DOMAIN wCust[p] : customers'[id] = wCust[p][id]

\* C8: last-write-wins customer upsert.  After each upsert the transaction
\* sees exactly the applied record under its id, whatever row (none, a
\* placeholder, an older or a newer record) was there, and the other rows
\* are untouched; a commit makes the last record applied to each id the
\* committed row.
C8_LastWriteWins == [][C8_Step]_vars

\* An older record has been applied over the newer committed row of the same
\* customer.
C8_Witness ==
  \E p \in Procs :
    /\ Has(customers, "c1") /\ customers["c1"].updated_at = 2
    /\ Has(wCust[p], "c1") /\ wCust[p]["c1"].updated_at = 1
    /\ wCust[p]["c1"].name = "Ann"

\* C9: mutual exclusion of syncs.  At most one sync transaction is in flight
\* (begun, and neither committed nor rolled back).
C9_MutualExclusion ==
  Cardinality({p \in Procs : pc[p] \in InTransaction}) <= 1

\* The greatest timestamp of a non-empty log.
MaxTimestamp(log) ==
  CHOOSE t \in {r.last_sync_timestamp : r \in log} :
    \A r \in log : r.last_sync_timestamp <= t

\* No sync handler moved: the step is one of GET /api/sync-status.
StatusStep ==
  pc' = pc /\ custQ' = custQ /\ rcptQ' = rcptQ /\ itemQ' = itemQ

\* What C10 asks of a single step.
C10_Step ==
  (StatusStep /\ statusResp'.code # 500) =>
    /\ dbVars' = dbVars
    /\ statusResp' = NoSyncResponse <=> sync_log = {}
    /\ sync_log # {} =>
         statusResp' = [code |-> 200,
                        body |-> <<"lastSync", FormatDate(MaxTimestamp(sync_log))>>]

\* C10: GET /api/sync-status answers 404 exactly when sync_log has no
\* committed row, and otherwise the (formatted) greatest timestamp of the log;
\* it changes no table.
C10_StatusIsGreatestWatermark == [][C10_Step]_vars

\* What C11 asks of a single step.
C11_Step ==
  /\ sync_log \subseteq sync_log'
  /\ \A row \in sync_log' \ sync_log : \A old \in sync_log : old.id # row.id
  /\ \A p \in Procs :
       /\ (pc[p] = "commit" /\ pc'[p] = "idle") =>
            Cardinality(sync_log') = Cardinality(sync_log) + 1
       /\ (pc[p] \in {"commitNoop", "rollback"} /\ pc'[p] = "idle") =>
            sync_log' = sync_log
  /\ sync_log' # sync_log =>
       \E p \in Procs :
         /\ pc[p] = "commit" /\ pc'[p] = "idle"
         /\ nRcpt[p] + nCust[p] > 0
         /\ resp'[p] = SyncedResponse(nRcpt[p], nCust[p])

\* C11: the watermark log is append-only.  No step removes or changes a
\* committed sync_log row; the step in which a data-bearing commit succeeds
\* adds exactly one row, under a fresh id; the end of a failed or of a no-op
\* invocation adds none, and no other step changes the log.  So the log grows
\* by one per successful data-bearing sync from its seeded rows.
C11_AppendOnlyLog == [][C11_Step]_vars

\* After the seeded row, one sync has appended its row and a later or
\* overlapping one has failed without appending.
C11_Witness ==
  /\ started = 2 /\ \A p \in Procs : pc[p] = "idle"
  /\ SeedRow \in sync_log /\ Cardinality(sync_log) = 2
  /\ \E p, q \in Procs : resp[p].code = 200 /\ resp[q] = SyncErrorResponse

\* The pcs at which lastSync and now of the invocation are defined.
WindowPcs ==
  {"fetchCustomers", "upsertCustomer", "fetchReceipts", "insertStub", "insertReceipt",
   "insertLineItem", "embed", "insertLog", "commit", "commitNoop"}

\* What C12 asks of a single step.
C12_Step ==
  \A p \in Procs :
    /\ (pc[p] \in WindowPcs /\ pc'[p] \in WindowPcs) =>
         /\ lastSync'[p] = lastSync[p] /\ now'[p] = now[p]
         /\ \A i \in DOMAIN requests[p] :
              i \in DOMAIN requests'[p] /\ requests'[p][i] = requests[p][i]
    /\ pc'[p] \in WindowPcs =>
         \A i \in DOMAIN requests'[p] :
           /\ requests'[p][i].params.created_at_min = ToISOString(lastSync'[p])
           /\ requests'[p][i].params.created_at_max = ToISOString(now'[p])
    /\ \A i, j \in DOMAIN requests'[p] : requests'[p][i].params = requests'[p][j].params
    /\ (pc[p] = "insertLog" /\ pc'[p] = "commit") =>
         \E row \in wLog'[p] :
           /\ wLog'[p] = wLog[p] \cup {row} /\ row \notin wLog[p]
           /\ row.last_sync_timestamp = now[p]
           /\ \A i \in DOMAIN requests[p] :
                requests[p][i].params.created_at_max = ToISOString(row.last_sync_timestamp)
    /\ (pc[p] = "commit" /\ pc'[p] = "idle") =>
         \A row \in sync_log' \ sync_log : row.last_sync_timestamp = now[p]

\* C12: one captured window per invocation.  From the watermark read on,
\* lastSync and now of an invocation keep their values; the requests of the
\* customers fetch and of the receipts fetch carry the same parameters,
\* created_at_min of lastSync and created_at_max of now; and the watermark
\* row the invocation inserts, and commits, carries that same now, however
\* far the clock has moved meanwhile.
C12_SingleWindow == [][C12_Step]_vars

\* An invocation that sent both requests is about to commit its watermark row
\* while the clock has moved past its now.
C12_Witness ==
  \E p \in Procs :
    /\ pc[p] = "commit" /\ Len(requests[p]) = 2 /\ wLog[p] # {}
    /\ requests[p][1].url = "customers" /\ requests[p][2].url = "receipts"
    /\ clock > now[p]

\* What C13 asks of a single step.
C13_Step ==
  \A p \in Procs :
    /\ (pc[p] = "readWatermark" /\ pc'[p] = "fetchCustomers") =>
         /\ lastEnd # <<>>
         /\ lastSync'[p] = lastEnd[1]
         /\ now'[p] >= clock
         /\ requests'[p][1].params.created_at_min = ToISOString(lastEnd[1])
    /\ (pc[p] \in {"commitNoop", "rollback"} /\ pc'[p] = "idle") =>
         (lastEnd' = lastEnd /\ SelectLastSync(sync_log') = SelectLastSync(sync_log))
    /\ (pc[p] = "commit" /\ pc'[p] = "idle") =>
         /\ lastSync[p] = lastEnd[1]
         /\ lastSync[p] <= now[p]
         /\ lastEnd' = <<now[p]>>
         /\ SelectLastSync(sync_log')[1].last_sync_timestamp = now[p]

\* C13: gapless re-delivery of windows, for invocations run one after
\* another.  The window of an invocation starts at the window end of the last
\* invocation whose data commit succeeded (at the seeded watermark when there
\* is none) and ends no earlier than any window captured before; the end of a
\* failed or of a no-op invocation leaves that start where it was; and a
\* successful data-bearing invocation, whose window started at the previous
\* end, makes its own window end the start of the next.
C13_GaplessWindows == [][C13_Step]_vars

\* After a sync that advanced the watermark past the seeded one, the next
\* invocation has read its window start.
C13_Witness ==
  \E p \in Procs :
    /\ started = 2 /\ pc[p] = "fetchCustomers"
    /\ Cardinality(sync_log) = 2 /\ lastEnd = <<1>>
    /\ lastSync[p] = 1

\* The phase of the orchestration an invocation suspended at `at` is in:
\* 1 WatermarkRead, 2 Fetching, 3 Writing, 4 DocumentBuilding (the documents
\* are handed over), 5 WatermarkAdvance, 6 the commit; 7 Failed.
Phase(at) ==
  CASE at = "readWatermark" -> 1
    [] at \in {"fetchCustomers", "fetchReceipts"} -> 2
    [] at \in {"upsertCustomer", "insertStub", "insertReceipt", "insertLineItem"} -> 3
    [] at = "embed" -> 4
    [] at = "insertLog" -> 5
    [] at \in {"commit", "commitNoop"} -> 6
    [] at = "rollback" -> 7
    [] OTHER -> 0

\* The uncommitted rows of the transaction of handler p.
Writes(p) == <<wCust[p], wRcpt[p], wItems[p], wLog[p]>>

NoWrites == <<EmptyFn, EmptyFn, <<>>, {}>>

\* What C14 asks of a single step.
C14_Step ==
  \A p \in Procs :
    /\ (Phase(pc[p]) > 0 /\ Phase(pc'[p]) > 0) => Phase(pc'[p]) >= Phase(pc[p])
    /\ Len(requests'[p]) > Len(requests[p]) => Writes(p) = NoWrites
    /\ (Writes(p)' # Writes(p) /\ Writes(p)' # NoWrites) =>
         (Len(requests[p]) = 2 /\ Phase(pc[p]) > 2)
    /\ pc[p] = "rollback" =>
         /\ pc'[p] \in {"rollback", "idle"}
         /\ pc'[p] = "rollback" => Writes(p)' = Writes(p)
         /\ pc'[p] = "idle" => (dbVars' = dbVars /\ Writes(p)' = NoWrites)
    /\ (pc[p] \in FailPoints /\ pc'[p] = "rollback") => Writes(p)' = Writes(p)

\* C14: the phase order of one invocation.  An invocation never returns to an
\* earlier phase; it sends no request to the POS API once it has written a
\* row, and writes no row before both of its requests were sent and answered;
\* an invocation in its rollback only ends, and neither it nor the step that
\* fails writes or commits anything.
C14_PhaseOrder == [][C14_Step]_vars

\* The description the handler builds of a receipt record.
DocumentOf(r) ==
  BuildSummary(r, [i \in 1..Len(r.line_items) |-> ItemSummary(r.line_items[i])])

\* What C15 asks of a single step.
C15_Step ==
  \A p \in Procs :
    /\ indexCalls'[p] <= 1
    /\ (rcptQ[p] # <<>> /\ rcptQ'[p] = Tail(rcptQ[p]) /\ pc'[p] # "rollback") =>
         /\ docs'[p] = Append(docs[p], DocumentOf(Head(rcptQ[p])))
         /\ Has(wRcpt'[p], Head(rcptQ[p]).receipt_number)
    /\ pc'[p] \in {"insertStub", "insertReceipt", "insertLineItem", "embed"} =>
         Len(docs'[p]) + Len(rcptQ'[p]) = nRcpt'[p]
    /\ indexCalls'[p] > indexCalls[p] =>
         /\ pc'[p] = "embed" /\ rcptQ'[p] = <<>> /\ itemQ'[p] = <<>>
         /\ nRcpt'[p] >= 1 /\ Len(docs'[p]) = nRcpt'[p]
         /\ Cardinality(DOMAIN wRcpt'[p]) = nRcpt'[p]
    /\ pc'[p] \in {"insertLog", "commit"} => (indexCalls'[p] = 1 <=> nRcpt'[p] >= 1)
    /\ (pc[p] = "embed" /\ pc'[p] = "insertLog") => indexed' = indexed \o docs[p]
    /\ indexed' # indexed => \E q \in Procs : pc[q] = "embed" /\ pc'[q] = "insertLog"
    /\ (pc[p] = "commit" /\ pc'[p] = "idle" /\ nRcpt[p] = 0) =>
         /\ nCust[p] > 0 /\ indexCalls[p] = 0
         /\ wLog[p] # {} /\ wLog[p] \subseteq sync_log'

\* C15: one indexing call per invocation.  An invocation calls
\* /embed-and-store at most once, and exactly when it processed a receipt;
\* the call is made when the loop has inserted every receipt and line item,
\* each finished receipt having added its description to the end of the
\* documents, so the payload holds one document per fetched receipt in fetch
\* order, and that payload is what the service accepts; a batch of customers
\* only makes no call, inserts its watermark row and commits.
C15_SingleIndexingCall == [][C15_Step]_vars

\* A sync of two receipts has had its two documents accepted, and a sync of
\* one customer and no receipt has committed without an indexing call.
C15_Witness ==
  /\ Len(indexed) = 2 /\ Cardinality(sync_log) = 3
  /\ \E p \in Procs : pc[p] = "idle" /\ resp[p] = SyncedResponse(0, 1)

\* What C16 asks of a single step.
C16_Step ==
  \A p \in Procs :
    /\ (pc[p] = "readWatermark" /\ pc'[p] # "readWatermark" /\ sync_log = {}) =>
         /\ pc'[p] = "rollback"
         /\ requests'[p] = <<>>
         /\ Writes(p)' = NoWrites
    /\ ( /\ pc[p] = "rollback" /\ pc'[p] = "idle"
         /\ sync_log = {} /\ err[p] = "TypeError"
         /\ resp'[p] # NoResponse ) =>
         /\ resp'[p] # SyncErrorResponse
         /\ dbVars' = dbVars

\* C16: the first run.  With no row in sync_log the invocation does not go
\* on to the fetches with a defaulted window start: it fails at the watermark
\* read, having sent no request and written nothing; and the response it
\* sends for the missing watermark differs from the response of the other
\* failures (the generic 500 of SyncErrorResponse), the tables being unchanged.
C16_FirstRunNotFound == [][C16_Step]_vars

\* What C17 asks of a single step.
C17_Step ==
  \A p \in Procs :
    /\ (pc[p] # "idle" /\ pc'[p] = "idle") =>
         (resp[p] = NoResponse /\ resp'[p] # NoResponse)
    /\ (resp'[p] # resp[p] /\ resp'[p] # NoResponse) =>
         (pc[p] # "idle" /\ pc'[p] = "idle" /\ resp[p] = NoResponse)
    /\ (pc[p] \in {"getConnection", "rollback"} /\ pc'[p] = "idle") =>
         resp'[p] = SyncErrorResponse
    /\ (pc[p] \in FailPoints /\ pc'[p] = "rollback") => resp'[p] = NoResponse
    /\ (resp'[p] # resp[p] /\ resp'[p].code = 200) =>
         /\ pc[p] \in {"commit", "commitNoop"}
         /\ customers' = Overlay(customers, wCust[p])
         /\ receipts' = Overlay(receipts, wRcpt[p])
         /\ line_items' = line_items \o wItems[p]
         /\ sync_log' = sync_log \cup wLog[p]

\* C17: the generic failure response.  An invocation sends its one response
\* in the step in which it ends, and sends none before; an invocation that
\* ends after a failure (of getConnection, or through the catch block for any
\* other step, the rollback included) sends the generic 500 'An error occurred
\* during synchronization.'; a 200 response is sent only in the step in which
\* the commit succeeds.
C17_GenericFailureResponse == [][C17_Step]_vars

\* The line_items rows that reference receipt_number n, in table order.
LineItemsOf(items, n) == SelectSeq(items, LAMBDA li : li.receipt_number = n)

\* What C18 asks of a single step.
C18_Step ==
  \A n \in DOMAIN receipts :
    /\ Has(receipts', n)
    /\ receipts'[n] = receipts[n]
    /\ LineItemsOf(line_items', n) = LineItemsOf(line_items, n)

\* C18: receipt immutability.  No step, of whatever invocation, removes a
\* committed receipts row or changes one of its attributes, nor adds, removes
\* or changes a line_items row that references its receipt_number.
C18_ReceiptImmutable == [][C18_Step]_vars

\* Receipt r1 is committed with its two line items, and a later or
\* overlapping invocation that was delivered a receipt has failed and ended.
C18_Witness ==
  /\ started = 2 /\ rcptLeft = 0
  /\ DOMAIN receipts = {"r1"} /\ Len(LineItemsOf(line_items, "r1")) = 2
  /\ \E p \in Procs : pc[p] = "idle" /\ resp[p] = SyncErrorResponse

\* The pool connections in use.
InUse == {p \in Procs : hasConn[p]}

\* What C19 asks of a single step.
C19_Step ==
  \A p \in Procs :
    /\ (hasConn'[p] /\ ~hasConn[p]) => (pc[p] = "getConnection" /\ pc'[p] = "beginTransaction")
    /\ (hasConn[p] /\ ~hasConn'[p]) =>
         /\ pc[p] \in {"commit", "commitNoop", "rollback"} /\ pc'[p] = "idle"
         /\ Writes(p)' = NoWrites
         /\ pc[p] = "rollback" => dbVars' = dbVars
         /\ pc[p] # "rollback" =>
              ( /\ customers' = Overlay(customers, wCust[p])
                /\ receipts' = Overlay(receipts, wRcpt[p])
                /\ line_items' = line_items \o wItems[p]
                /\ sync_log' = sync_log \cup wLog[p] )
    /\ (pc[p] # "idle" /\ pc'[p] = "idle") =>
         (hasConn[p] <=> pc[p] # "getConnection") /\ ~hasConn'[p]
    /\ (pc[p] \in {"commit", "commitNoop"} /\ pc'[p] = "rollback") =>
         (dbVars' = dbVars /\ hasConn'[p])
    /\ pc'[p] = "rollback" => (hasConn'[p] /\ pc[p] # "getConnection")
    /\ pc'[p] = "idle" => (p \notin InUse' /\ Writes(p)' = NoWrites)
    /\ pc'[p] \in InTransaction \cup {"beginTransaction"} => p \in InUse'

\* C19: connection and transaction lifecycle.  A handler acquires its
\* connection in getConnection only; it gives it up in the one step in which
\* its invocation ends, and that step is the one in which its commit returns
\* (its rows becoming the committed ones) or its rollback settles (the tables
\* staying as they are), with no uncommitted row left; a commit that returned
\* is never followed by a rollback; an invocation whose acquisition failed
\* ends with neither rollback nor release; so an idle handler holds no
\* connection and no open transaction, and a handler in its transaction
\* holds one.
C19_ConnectionLifecycle == [][C19_Step]_vars

\* A no-op invocation and an invocation that failed after it was delivered
\* data have both ended, and no connection is in use.
C19_Witness ==
  /\ started = 2 /\ InUse = {}
  /\ custLeft + rcptLeft < MaxCustomers + MaxReceipts
  /\ \E p, q \in Procs :
       /\ pc[p] = "idle" /\ resp[p] = NoNewDataResponse
       /\ pc[q] = "idle" /\ resp[q] = SyncErrorResponse

\* The description of the committed receipt n, built from its stored rows.
StoredDocument(n) ==
  LET items == LineItemsOf(line_items, n) IN
    BuildSummary([receipt_number |-> n, created_at |-> receipts[n].created_at,
                  total_money |-> receipts[n].total_money],
                 [i \in 1..Len(items) |-> ItemSummary(items[i])])

\* C20: the indexing service and the store agree.  Whenever no invocation is
\* running, every document the indexing service has accepted is the
\* description of a committed receipt, and every committed receipt has its
\* description accepted exactly once.
C20_IndexerAgreesWithStore ==
  (\A p \in Procs : pc[p] = "idle") =>
    /\ \A i \in DOMAIN indexed :
         \E n \in DOMAIN receipts : indexed[i] = StoredDocument(n)
    /\ \A n \in DOMAIN receipts :
         Cardinality({i \in DOMAIN indexed : indexed[i] = StoredDocument(n)}) = 1

====
